---- MODULE Spec2Model ----
(***************************************************************************)
(* The chassis REST controller of ironic/api/controllers/v1/chassis.py:    *)
(* record -> representation conversion with field projection and link      *)
(* synthesis, collection pages, JSON-patch updates, and the CRUD handlers   *)
(* over a persistence store whose calls are atomic.                         *)
(*                                                                         *)
(* Encoding.  A python dict / object with optional attributes is a TLA+     *)
(* function whose DOMAIN holds the attributes that are set: wtypes.Unset    *)
(* is "not in the DOMAIN".  None is the string "None".  The extra mapping   *)
(* is a set of <<key, value>> pairs, its values JSON arrays of integers.    *)
(* Timestamps are managed by the persistence layer; they are carried as the *)
(* abstract value "ts".                                                     *)
(***************************************************************************)
EXTENDS Integers, Sequences, FiniteSets, TLC

VARIABLES db, nextId, resp, inflight

vars == <<db, nextId, resp, inflight>>

(* ------------------------------ bounds -------------------------------- *)

\* CONF.api.max_limit, the configured cap of a page
MaxLimit == 2
\* how many records are ever created under Spec (ids are 1..MaxCreate)
MaxCreate == 1
\* how many records are ever created under SpecConc
MaxConcCreate == 1
\* how many records are ever created under SpecList
MaxListCreate == 3
\* longest JSON array held in extra
MaxList == 2

(* ------------------------------ domains ------------------------------- *)

None == "None"
Unset == "Unset"

\* the order of uuids as strings
UuidList == <<"u1", "u2", "u3", "u4", "u5">>
\* the uuid generator of the persistence layer: the uuid given to the record
\* with a given id (an arbitrary injective sequence)
UuidGen == <<"u3", "u1", "u4", "u2", "u5">>
UuidOf(id) == UuidGen[id]
ExtraKey == "k"
Procs == {1, 2}

\* objects.Chassis.fields
ObjFields == {"id", "uuid", "description", "extra", "created_at", "updated_at"}
\* the fields of objects.Chassis that the API class Chassis has as attributes
ExposedFields == {"uuid", "description", "extra", "created_at", "updated_at"}

_DEFAULT_RETURN_FIELDS == {"uuid", "description"}

invalid_sort_key_list == {"extra"}

NoFields == [given |-> FALSE, names |-> {}]
Fields(S) == [given |-> TRUE, names |-> S]

(* --------------------------- small helpers ---------------------------- *)

Min(a, b) == IF a < b THEN a ELSE b

Restrict(f, S) == [a \in (DOMAIN f) \cap S |-> f[a]]

\* python getattr(obj, a) on an object whose unset attributes read as Unset;
\* used only where the attribute holds a string
GetStr(f, a) == IF a \in DOMAIN f THEN f[a] ELSE Unset


HasKey(e, k) == \E p \in e : p[1] = k
Get(e, k) == (CHOOSE p \in e : p[1] = k)[2]
Del(e, k) == {p \in e : p[1] # k}
Put(e, k, v) == Del(e, k) \cup {<<k, v>>}

(* ------------------------------ links --------------------------------- *)

\* link.Link.make_link: {base_url}/{version prefix}/{resource}/{resource_args},
\* the version prefix left out of a bookmark
make_link(rel, url, resource, resource_id, sub, bookmark) ==
    [rel |-> rel,
     href |-> [url |-> url, v1 |-> ~bookmark, resource |-> resource,
               id |-> resource_id, sub |-> sub]]

host_url == "http://host"

(* --------------------------- representation --------------------------- *)

\* Chassis.__init__(**kwargs): every exposed field, from kwargs or Unset
Chassis_init(kwargs) == Restrict(kwargs, ExposedFields)

\* APIBase.as_dict: the fields of self.fields that are set
as_dict(chassis) == Restrict(chassis, ExposedFields)

\* APIBase.unset_fields_except: every key of as_dict() that is not in the
\* list becomes Unset.  uuid is one of those keys: _convert_with_links saves
\* it beforehand because "the uuid can be unset".
unset_fields_except(chassis, except_list) ==
    Restrict(chassis, (DOMAIN chassis \ DOMAIN as_dict(chassis))
                        \cup except_list)

\* api_utils.check_for_invalid_fields: TRUE when no requested field is unknown
check_for_invalid_fields(fields, object_fields) ==
    fields \subseteq DOMAIN object_fields

_convert_with_links_noproject(chassis, url, fields) ==
    LET chassis_uuid == GetStr(chassis, "uuid")
    IN [a \in DOMAIN chassis \cup {"links"} |->
          IF a = "links"
          THEN <<make_link("self", url, "chassis", chassis_uuid, "", FALSE),
                 make_link("bookmark", url, "chassis", chassis_uuid, "", TRUE)>>
          ELSE chassis[a]]

_convert_with_links_unsaved_uuid(chassis, url, fields) ==
    LET projected == IF fields.given
                     THEN unset_fields_except(chassis, fields.names)
                     ELSE chassis
        uuid_now == GetStr(projected, "uuid")
        withNodes == IF fields.given THEN projected
                     ELSE [a \in DOMAIN projected \cup {"nodes"} |->
                             IF a = "nodes"
                             THEN <<make_link("self", url, "chassis", uuid_now, "nodes", FALSE),
                                    make_link("bookmark", url, "chassis", uuid_now, "nodes", TRUE)>>
                             ELSE projected[a]]
    IN [a \in DOMAIN withNodes \cup {"links"} |->
          IF a = "links"
          THEN <<make_link("self", url, "chassis", uuid_now, "", FALSE),
                 make_link("bookmark", url, "chassis", uuid_now, "", TRUE)>>
          ELSE withNodes[a]]

_convert_with_links_always_nodes(chassis, url, fields) ==
    LET chassis_uuid == GetStr(chassis, "uuid")
        projected == IF fields.given
                     THEN unset_fields_except(chassis, fields.names)
                     ELSE chassis
    IN [a \in DOMAIN projected \cup {"nodes", "links"} |->
          CASE a = "nodes" ->
                 <<make_link("self", url, "chassis", chassis_uuid, "nodes", FALSE),
                   make_link("bookmark", url, "chassis", chassis_uuid, "nodes", TRUE)>>
            [] a = "links" ->
                 <<make_link("self", url, "chassis", chassis_uuid, "", FALSE),
                   make_link("bookmark", url, "chassis", chassis_uuid, "", TRUE)>>
            [] OTHER -> projected[a]]

\* Chassis._convert_with_links
_convert_with_links(chassis, url, fields) ==
    LET chassis_uuid == GetStr(chassis, "uuid")
        projected == IF fields.given
                     THEN unset_fields_except(chassis, fields.names)
                     ELSE chassis
        withNodes == IF fields.given THEN projected
                     ELSE [a \in DOMAIN projected \cup {"nodes"} |->
                             IF a = "nodes"
                             THEN <<make_link("self", url, "chassis", chassis_uuid, "nodes", FALSE),
                                    make_link("bookmark", url, "chassis", chassis_uuid, "nodes", TRUE)>>
                             ELSE projected[a]]
    IN [a \in DOMAIN withNodes \cup {"links"} |->
          IF a = "links"
          THEN <<make_link("self", url, "chassis", chassis_uuid, "", FALSE),
                 make_link("bookmark", url, "chassis", chassis_uuid, "", TRUE)>>
          ELSE withNodes[a]]

\* Chassis.convert_with_links: [ok, chassis]; ok = FALSE is the
\* InvalidParameterValue of check_for_invalid_fields
convert_with_links(rpc_chassis, fields) ==
    LET chassis == Chassis_init(rpc_chassis)
    IN IF fields.given /\ ~check_for_invalid_fields(fields.names, as_dict(chassis))
       THEN [ok |-> FALSE, chassis |-> chassis]
       ELSE [ok |-> TRUE,
             chassis |-> _convert_with_links(chassis, host_url, fields)]

(* ---------------------------- persistence ----------------------------- *)

\* objects.Chassis.get_by_uuid: ChassisNotFound when no record has the uuid
Exists(d, uuid) == uuid \in DOMAIN d

Rank(seq, v) == CHOOSE i \in 1..Len(seq) : seq[i] = v

DescOrder == <<None, "a", "b">>

\* the value a record is ordered by under a sort key
SortVal(rec, sort_key) ==
    CASE sort_key = "uuid" -> Rank(UuidList, rec.uuid)
      [] sort_key = "description" -> Rank(DescOrder, rec.description)
      [] OTHER -> rec.id

\* record a comes before record b: by the sort key, then by id, both in sort_dir
Before(a, b, sort_key, sort_dir) ==
    LET ka == SortVal(a, sort_key)
        kb == SortVal(b, sort_key)
    IN IF sort_dir = "asc"
       THEN ka < kb \/ (ka = kb /\ a.id < b.id)
       ELSE ka > kb \/ (ka = kb /\ a.id > b.id)

RECURSIVE Sorted(_, _, _)
Sorted(S, sort_key, sort_dir) ==
    IF S = {} THEN <<>>
    ELSE LET m == CHOOSE m \in S :
                    \A o \in S : o.id # m.id => Before(m, o, sort_key, sort_dir)
         IN <<m>> \o Sorted(S \ {m}, sort_key, sort_dir)

Take(seq, n) == SubSeq(seq, 1, Min(n, Len(seq)))

\* objects.Chassis.list: the records after the marker (exclusive) in the
\* requested order, at most limit of them
list(d, limit, marker_obj, sort_key, sort_dir) ==
    LET all == {d[u] : u \in DOMAIN d}
        rest == IF marker_obj.given
                THEN {r \in all : Before(marker_obj.rec, r, sort_key, sort_dir)}
                ELSE all
    IN Take(Sorted(rest, sort_key, sort_dir), limit)

NoRec == [id |-> 0, uuid |-> None, description |-> None, extra |-> {},
          created_at |-> "ts", updated_at |-> "ts"]
NoMarker == [given |-> FALSE, rec |-> NoRec]

\* objects.Chassis(context, **values) followed by create(): the record that
\* is stored; description defaults to None and extra to {}
NewRecord(values, id, uuid) ==
    [id |-> id,
     uuid |-> uuid,
     description |-> IF "description" \in DOMAIN values
                     THEN values.description ELSE None,
     extra |-> IF "extra" \in DOMAIN values THEN values.extra ELSE {},
     created_at |-> "ts",
     updated_at |-> "ts"]

\* the uuid under which the record with this id is stored, when there is one
HasId(d, id) == \E u \in DOMAIN d : d[u].id = id

\* rpc_chassis.save(): the staged fields are written to the record of that id
save(d, rpc_chassis, changes) ==
    [u \in DOMAIN d |->
       IF d[u].id = rpc_chassis.id
       THEN [f \in ObjFields |-> IF f \in changes THEN rpc_chassis[f] ELSE d[u][f]]
       ELSE d[u]]

\* rpc_chassis.destroy()
destroy(d, rpc_chassis) ==
    [u \in {v \in DOMAIN d : d[v].id # rpc_chassis.id} |-> d[u]]

(* ----------------------------- api_utils ------------------------------ *)

NoLimit == [given |-> FALSE, n |-> 0]
Limit(n) == [given |-> TRUE, n |-> n]

\* api_utils.validate_limit
limit_valid(limit) == ~limit.given \/ limit.n > 0
validate_limit(limit) ==
    IF ~limit.given THEN MaxLimit ELSE Min(MaxLimit, limit.n)

\* api_utils.validate_sort_dir
sort_dir_valid(sort_dir) == sort_dir \in {"asc", "desc"}

\* api_utils.check_allow_specify_fields: fields that are never exposable
\* are refused even when asked for
check_allow_specify_fields(fields) ==
    ~fields.given \/ fields.names \cap (ObjFields \ ExposedFields) = {}

(* ----------------------------- collection ----------------------------- *)

\* collection.Collection.get_next: a full page gets a next link, which
\* carries the last item's uuid as the marker
get_next(chassis, limit, url, sort_key, sort_dir) ==
    IF Len(chassis) # 0 /\ Len(chassis) = limit
    THEN [given |-> TRUE,
          url |-> IF url = None THEN "chassis" ELSE url,
          limit |-> limit,
          marker |-> GetStr(chassis[Len(chassis)], "uuid"),
          sort_key |-> sort_key,
          sort_dir |-> sort_dir]
    ELSE [given |-> FALSE, url |-> None, limit |-> limit, marker |-> Unset,
          sort_key |-> sort_key, sort_dir |-> sort_dir]

NoPage == [chassis |-> <<>>,
           next |-> [given |-> FALSE, url |-> None, limit |-> 0,
                     marker |-> Unset, sort_key |-> None, sort_dir |-> None]]

\* ChassisCollection.convert_with_links: [ok, page]
ChassisCollection_convert_with_links(chassis, limit, url, fields, sort_key, sort_dir) ==
    LET conv == [i \in 1..Len(chassis) |-> convert_with_links(chassis[i], fields)]
    IN IF \E i \in 1..Len(chassis) : ~conv[i].ok
       THEN [ok |-> FALSE, page |-> NoPage]
       ELSE LET items == [i \in 1..Len(chassis) |-> conv[i].chassis]
            IN [ok |-> TRUE,
                page |-> [chassis |-> items,
                          next |-> get_next(items, limit, url, sort_key, sort_dir)]]

(* ------------------------------ patching ------------------------------ *)

SetKey(d, k, v) == [a \in DOMAIN d \cup {k} |-> IF a = k THEN v ELSE d[a]]

Op(op, path, value) == [op |-> op, path |-> path, value |-> value]

\* one operation of a JSON patch (RFC 6902) on the dict form of a record:
\* [ok, doc].  A path of one segment addresses a member of the root object,
\* <<"extra", k>> a member of extra, and <<"extra", k, "-">> the end of the
\* array extra[k], where add inserts.
ApplyOp(d, o) ==
    LET top == o.path[1]
        fail == [ok |-> FALSE, doc |-> d]
    IN CASE Len(o.path) = 1 ->
              IF o.op = "add" THEN [ok |-> TRUE, doc |-> SetKey(d, top, o.value)]
              ELSE IF top \notin DOMAIN d THEN fail
              ELSE IF o.op = "replace"
                   THEN [ok |-> TRUE, doc |-> SetKey(d, top, o.value)]
                   ELSE [ok |-> TRUE, doc |-> Restrict(d, DOMAIN d \ {top})]
         [] Len(o.path) = 2 ->
              IF top \notin DOMAIN d THEN fail
              ELSE IF o.op = "add"
                   THEN [ok |-> TRUE,
                         doc |-> SetKey(d, top, Put(d[top], o.path[2], o.value))]
              ELSE IF ~HasKey(d[top], o.path[2]) THEN fail
              ELSE IF o.op = "replace"
                   THEN [ok |-> TRUE,
                         doc |-> SetKey(d, top, Put(d[top], o.path[2], o.value))]
                   ELSE [ok |-> TRUE,
                         doc |-> SetKey(d, top, Del(d[top], o.path[2]))]
         [] OTHER ->
              IF top \notin DOMAIN d \/ o.op # "add" THEN fail
              ELSE IF ~HasKey(d[top], o.path[2]) THEN fail
              ELSE [ok |-> TRUE,
                    doc |-> SetKey(d, top,
                                   Put(d[top], o.path[2],
                                       Append(Get(d[top], o.path[2]), o.value)))]

\* api_utils.apply_jsonpatch: the operations in order; the first that does
\* not apply is a JSONPATCH_EXCEPTION
RECURSIVE apply_jsonpatch(_, _)
apply_jsonpatch(doc, patch_doc) ==
    IF patch_doc = <<>> THEN [ok |-> TRUE, doc |-> doc]
    ELSE LET r == ApplyOp(doc, Head(patch_doc))
         IN IF r.ok THEN apply_jsonpatch(r.doc, Tail(patch_doc)) ELSE r

\* getattr(chassis, field), an Unset attribute read as None
PatchVal(chassis, field) ==
    IF field \in DOMAIN chassis THEN chassis[field] ELSE None

\* every array of the patched document fits the model's bound
ListsBounded(doc) ==
    "extra" \in DOMAIN doc => \A p \in doc.extra : Len(p[2]) <= MaxList


patch_fetch_all_staged(d, chassis_uuid, patch_doc) ==
    IF ~Exists(d, chassis_uuid) THEN [status |-> "ResourceNotFound"]
    ELSE LET rpc_chassis == d[chassis_uuid]
             applied == apply_jsonpatch(rpc_chassis, patch_doc)
         IN IF ~applied.ok THEN [status |-> "PatchError"]
            ELSE LET chassis == Chassis_init(applied.doc)
                 IN [status |-> "ok",
                     before |-> rpc_chassis,
                     patched |-> chassis,
                     changes |-> ExposedFields,
                     rpc_chassis |->
                        [f \in ObjFields |->
                           IF f \in ExposedFields THEN PatchVal(chassis, f)
                           ELSE rpc_chassis[f]]]

FieldOrder == <<"id", "uuid", "description", "extra", "created_at", "updated_at">>

patch_fetch_first_only(d, chassis_uuid, patch_doc) ==
    IF ~Exists(d, chassis_uuid) THEN [status |-> "ResourceNotFound"]
    ELSE LET rpc_chassis == d[chassis_uuid]
             applied == apply_jsonpatch(rpc_chassis, patch_doc)
         IN IF ~applied.ok THEN [status |-> "PatchError"]
            ELSE LET chassis == Chassis_init(applied.doc)
                     differing == {f \in ObjFields \cap ExposedFields :
                                     rpc_chassis[f] # PatchVal(chassis, f)}
                     changes == {f \in differing :
                                   \A g \in differing :
                                      Rank(FieldOrder, f) <= Rank(FieldOrder, g)}
                 IN [status |-> "ok",
                     before |-> rpc_chassis,
                     patched |-> chassis,
                     changes |-> changes,
                     rpc_chassis |->
                        [f \in ObjFields |->
                           IF f \in changes THEN PatchVal(chassis, f)
                           ELSE rpc_chassis[f]]]

\* ChassisController.patch up to the save: the fetch, the patch applied to
\* the dict form, and the staging of every exposed field whose patched value
\* differs from the fetched one
patch_fetch(d, chassis_uuid, patch_doc) ==
    IF ~Exists(d, chassis_uuid) THEN [status |-> "ResourceNotFound"]
    ELSE LET rpc_chassis == d[chassis_uuid]
             applied == apply_jsonpatch(rpc_chassis, patch_doc)
         IN IF ~applied.ok THEN [status |-> "PatchError"]
            ELSE LET chassis == Chassis_init(applied.doc)
                     changes == {f \in ObjFields \cap ExposedFields :
                                   rpc_chassis[f] # PatchVal(chassis, f)}
                 IN [status |-> "ok",
                     before |-> rpc_chassis,
                     patched |-> chassis,
                     changes |-> changes,
                     rpc_chassis |->
                        [f \in ObjFields |->
                           IF f \in changes THEN PatchVal(chassis, f)
                           ELSE rpc_chassis[f]]]

\* what a request performs with a conflict check added before the save
patch_save_checked(d, st) ==
    IF ~HasId(d, st.rpc_chassis.id)
    THEN [status |-> "ResourceNotFound", db |-> d]
    ELSE IF d[st.before.uuid] # st.before
    THEN [status |-> "Conflict", db |-> d]
    ELSE [status |-> "ok", db |-> save(d, st.rpc_chassis, st.changes)]

\* ChassisController.patch from the save on: [status, db]
patch_save(d, st) ==
    IF ~HasId(d, st.rpc_chassis.id)
    THEN [status |-> "ResourceNotFound", db |-> d]
    ELSE [status |-> "ok", db |-> save(d, st.rpc_chassis, st.changes)]

(* ------------------------------ handlers ------------------------------ *)

\* what a handler leaves behind: the status of the response, its body, the
\* persistence calls it made, and the store after it
Result(status, body, calls, d) ==
    [status |-> status, body |-> body, calls |-> calls, db |-> d]

NoBody == <<>>

_get_chassis_collection_no_key_check(d, marker, limit, sort_key, sort_dir, resource_url, fields) ==
    IF ~limit_valid(limit) \/ ~sort_dir_valid(sort_dir)
    THEN Result("InvalidParameterValue", NoBody, <<>>, d)
    ELSE IF marker # None /\ ~Exists(d, marker)
    THEN Result("ResourceNotFound", NoBody, <<"get_by_uuid">>, d)
    ELSE LET lim == validate_limit(limit)
             calls == IF marker # None THEN <<"get_by_uuid">> ELSE <<>>
             marker_obj == IF marker # None
                           THEN [given |-> TRUE, rec |-> d[marker]]
                           ELSE NoMarker
             chassis == list(d, lim, marker_obj, sort_key, sort_dir)
             coll == ChassisCollection_convert_with_links(
                         chassis, lim, resource_url, fields, sort_key, sort_dir)
         IN IF coll.ok
            THEN Result("ok", coll.page, Append(calls, "list"), d)
            ELSE Result("InvalidParameterValue", NoBody, Append(calls, "list"), d)

_get_chassis_collection_wrong_limit(d, marker, limit, sort_key, sort_dir, resource_url, fields) ==
    IF ~limit_valid(limit) \/ ~sort_dir_valid(sort_dir)
    THEN Result("InvalidParameterValue", NoBody, <<>>, d)
    ELSE IF marker # None /\ ~Exists(d, marker)
    THEN Result("ResourceNotFound", NoBody, <<"get_by_uuid">>, d)
    ELSE LET lim == validate_limit(limit)
             calls == IF marker # None THEN <<"get_by_uuid">> ELSE <<>>
             marker_obj == IF marker # None
                           THEN [given |-> TRUE, rec |-> d[marker]]
                           ELSE NoMarker
         IN IF sort_key \in invalid_sort_key_list
            THEN Result("InvalidParameterValue", NoBody, calls, d)
            ELSE LET chassis == list(d, lim, marker_obj, sort_key, sort_dir)
                     coll == ChassisCollection_convert_with_links(
                                 chassis, lim + 1, resource_url, fields,
                                 sort_key, sort_dir)
                 IN IF coll.ok
                    THEN Result("ok", coll.page, Append(calls, "list"), d)
                    ELSE Result("InvalidParameterValue", NoBody,
                                Append(calls, "list"), d)

\* ChassisController._get_chassis_collection
_get_chassis_collection(d, marker, limit, sort_key, sort_dir, resource_url, fields) ==
    IF ~limit_valid(limit) \/ ~sort_dir_valid(sort_dir)
    THEN Result("InvalidParameterValue", NoBody, <<>>, d)
    ELSE IF marker # None /\ ~Exists(d, marker)
    THEN Result("ResourceNotFound", NoBody, <<"get_by_uuid">>, d)
    ELSE LET lim == validate_limit(limit)
             calls == IF marker # None THEN <<"get_by_uuid">> ELSE <<>>
             marker_obj == IF marker # None
                           THEN [given |-> TRUE, rec |-> d[marker]]
                           ELSE NoMarker
         IN IF sort_key \in invalid_sort_key_list
            THEN Result("InvalidParameterValue", NoBody, calls, d)
            ELSE LET chassis == list(d, lim, marker_obj, sort_key, sort_dir)
                     coll == ChassisCollection_convert_with_links(
                                 chassis, lim, resource_url, fields,
                                 sort_key, sort_dir)
                 IN IF coll.ok
                    THEN Result("ok", coll.page, Append(calls, "list"), d)
                    ELSE Result("InvalidParameterValue", NoBody,
                                Append(calls, "list"), d)

\* ChassisController.get_all
get_all(d, marker, limit, sort_key, sort_dir, fields) ==
    IF ~check_allow_specify_fields(fields)
    THEN Result("InvalidParameterValue", NoBody, <<>>, d)
    ELSE _get_chassis_collection(
             d, marker, limit, sort_key, sort_dir, None,
             IF fields.given THEN fields ELSE Fields(_DEFAULT_RETURN_FIELDS))

detail_any_parent(d, parent, marker, limit, sort_key, sort_dir) ==
    _get_chassis_collection(d, marker, limit, sort_key, sort_dir,
                            "chassis/detail", NoFields)

\* ChassisController.detail
detail(d, parent, marker, limit, sort_key, sort_dir) ==
    IF parent # "chassis"
    THEN Result("ResourceNotFound", NoBody, <<>>, d)
    ELSE _get_chassis_collection(d, marker, limit, sort_key, sort_dir,
                                 "chassis/detail", NoFields)

\* ChassisController.get_one
get_one(d, chassis_uuid, fields) ==
    IF ~check_allow_specify_fields(fields)
    THEN Result("InvalidParameterValue", NoBody, <<>>, d)
    ELSE IF ~Exists(d, chassis_uuid)
    THEN Result("ResourceNotFound", NoBody, <<"get_by_uuid">>, d)
    ELSE LET conv == convert_with_links(d[chassis_uuid], fields)
         IN IF conv.ok
            THEN Result("ok", conv.chassis, <<"get_by_uuid">>, d)
            ELSE Result("InvalidParameterValue", NoBody, <<"get_by_uuid">>, d)

\* link.build_url('chassis', uuid)
build_url(resource, resource_id) ==
    [url |-> host_url, v1 |-> TRUE, resource |-> resource,
     id |-> resource_id, sub |-> ""]

\* ChassisController.post, the new record taking the id and uuid the
\* persistence layer gives it
post(d, chassis, id) ==
    LET new_chassis == NewRecord(as_dict(chassis), id, UuidOf(id))
        created == [u \in DOMAIN d \cup {new_chassis.uuid} |->
                      IF u = new_chassis.uuid THEN new_chassis ELSE d[u]]
    IN Result("ok",
              [chassis |-> convert_with_links(new_chassis, NoFields).chassis,
               location |-> build_url("chassis", new_chassis.uuid)],
              <<"create">>, created)

RECURSIVE apply_prefix(_, _)
apply_prefix(doc, patch_doc) ==
    IF patch_doc = <<>> THEN doc
    ELSE LET r == ApplyOp(doc, Head(patch_doc))
         IN IF r.ok THEN apply_prefix(r.doc, Tail(patch_doc)) ELSE doc

patch_partial_write(d, chassis_uuid, patch_doc) ==
    LET st == patch_fetch(d, chassis_uuid, patch_doc)
    IN IF st.status = "ResourceNotFound"
       THEN Result(st.status, NoBody, <<"get_by_uuid">>, d)
       ELSE IF st.status = "PatchError"
       THEN LET part == Chassis_init(apply_prefix(d[chassis_uuid], patch_doc))
                rec == [f \in ObjFields |->
                          IF f \in ExposedFields THEN PatchVal(part, f)
                          ELSE d[chassis_uuid][f]]
            IN Result(st.status, NoBody, <<"get_by_uuid", "save">>,
                      save(d, rec, ExposedFields))
       ELSE LET sv == patch_save(d, st)
            IN Result(sv.status,
                      [chassis |-> convert_with_links(st.rpc_chassis, NoFields).chassis,
                       before |-> st.before,
                       patched |-> st.patched,
                       changes |-> st.changes],
                      <<"get_by_uuid", "save">>, sv.db)

\* ChassisController.patch
patch(d, chassis_uuid, patch_doc) ==
    LET st == patch_fetch(d, chassis_uuid, patch_doc)
    IN IF st.status # "ok"
       THEN Result(st.status, NoBody, <<"get_by_uuid">>, d)
       ELSE LET sv == patch_save(d, st)
            IN Result(sv.status,
                      [chassis |-> convert_with_links(st.rpc_chassis, NoFields).chassis,
                       before |-> st.before,
                       patched |-> st.patched,
                       changes |-> st.changes],
                      <<"get_by_uuid", "save">>, sv.db)

\* ChassisController.delete
delete(d, chassis_uuid) ==
    IF ~Exists(d, chassis_uuid)
    THEN Result("ResourceNotFound", NoBody, <<"get_by_uuid">>, d)
    ELSE Result("ok", NoBody, <<"get_by_uuid", "destroy">>,
                destroy(d, d[chassis_uuid]))

(* ------------------------------- inputs ------------------------------- *)

\* the uuids a request may name: those given out so far and one never used
UuidInputs == {UuidOf(i) : i \in 1..nextId}
MarkerInputs == {None} \cup UuidInputs
LimitInputs == {NoLimit} \cup {Limit(n) : n \in 0..(MaxLimit + 1)}
SortKeys == {"id", "uuid", "description", "extra"}
SortDirs == {"asc", "desc", "up"}
\* the list queries drawn under Spec, where one record at most exists
FewSortKeys == {"id", "extra"}
FewSortDirs == {"asc", "up"}
FieldInputs == {NoFields, Fields({}), Fields({"description"}),
                Fields({"uuid", "extra"}), Fields({"bogus"}), Fields({"id"})}
ListFieldInputs == {NoFields, Fields({"description"}), Fields({"bogus"}),
                    Fields({"id"})}
Parents == {"chassis", "nodes"}

\* request bodies of POST: description and extra each given or left out
PostBodies ==
    {Restrict([description |-> "a", extra |-> {<<ExtraKey, <<>>>>}], S) :
        S \in SUBSET {"description", "extra"}}

\* the bodies drawn under SpecList
PlainBodies == {b \in PostBodies : "extra" \notin DOMAIN b}

PatchOps ==
    { Op("replace", <<"description">>, "a"),
      Op("replace", <<"description">>, "b"),
      Op("remove", <<"description">>, None),
      Op("add", <<"extra", ExtraKey>>, <<>>),
      Op("add", <<"extra", ExtraKey, "-">>, 1),
      Op("remove", <<"extra", ExtraKey>>, None),
      Op("replace", <<"id">>, 0) }

\* patch documents of one and of two operations
PatchDocs == {<<o>> : o \in PatchOps} \cup {<<o1, o2>> : o1, o2 \in PatchOps}

\* the documents of concurrent updates
ConcDocs == { <<Op("replace", <<"description">>, "a")>>,
              <<Op("replace", <<"description">>, "b")>>,
              <<Op("remove", <<"description">>, None)>>,
              <<Op("add", <<"extra", ExtraKey>>, <<>>)>> }

(* ------------------------------- state -------------------------------- *)

Idle == [pc |-> "idle"]
Quiet == [op |-> "none"]

Init ==
    /\ db = <<>>
    /\ nextId = 1
    /\ resp = Quiet
    /\ inflight = [p \in Procs |-> Idle]

Respond(op, req, r) ==
    resp' = [op |-> op, req |-> req, status |-> r.status, body |-> r.body,
             calls |-> r.calls]

\* the response is delivered; the server takes the next request
Reply ==
    /\ resp.op # "none"
    /\ resp' = Quiet
    /\ UNCHANGED <<db, nextId, inflight>>

GetAll(keys, dirs) ==
    /\ resp.op = "none"
    /\ \E marker \in MarkerInputs, limit \in LimitInputs, sort_key \in keys,
          sort_dir \in dirs, fields \in ListFieldInputs :
        Respond("get_all",
                [marker |-> marker, limit |-> limit, sort_key |-> sort_key,
                 sort_dir |-> sort_dir, fields |-> fields],
                get_all(db, marker, limit, sort_key, sort_dir, fields))
    /\ UNCHANGED <<db, nextId, inflight>>

Detail(keys, dirs) ==
    /\ resp.op = "none"
    /\ \E parent \in Parents, marker \in MarkerInputs, limit \in LimitInputs,
          sort_key \in keys, sort_dir \in dirs :
        Respond("detail",
                [parent |-> parent, marker |-> marker, limit |-> limit,
                 sort_key |-> sort_key, sort_dir |-> sort_dir],
                detail(db, parent, marker, limit, sort_key, sort_dir))
    /\ UNCHANGED <<db, nextId, inflight>>

GetOne ==
    /\ resp.op = "none"
    /\ \E chassis_uuid \in UuidInputs, fields \in FieldInputs :
        Respond("get_one", [uuid |-> chassis_uuid, fields |-> fields],
                get_one(db, chassis_uuid, fields))
    /\ UNCHANGED <<db, nextId, inflight>>

Post(cap, bodies) ==
    /\ resp.op = "none"
    /\ nextId <= cap
    /\ \E chassis \in bodies :
        LET r == post(db, chassis, nextId)
        IN /\ Respond("post", [body |-> chassis], r)
           /\ db' = r.db
           /\ nextId' = nextId + 1
    /\ UNCHANGED inflight

Delete ==
    /\ resp.op = "none"
    /\ \E chassis_uuid \in UuidInputs :
        LET r == delete(db, chassis_uuid)
        IN /\ Respond("delete", [uuid |-> chassis_uuid], r)
           /\ db' = r.db
    /\ UNCHANGED <<nextId, inflight>>

Patch ==
    /\ resp.op = "none"
    /\ \E chassis_uuid \in UuidInputs, doc \in PatchDocs :
        LET r == patch(db, chassis_uuid, doc)
        IN /\ r.status = "ok" => ListsBounded(r.db[chassis_uuid])
           /\ Respond("patch", [uuid |-> chassis_uuid, patch |-> doc], r)
           /\ db' = r.db
    /\ UNCHANGED <<nextId, inflight>>

\* two update requests with the same document, one after the other: the
\* response keeps the record as the first left it, and the outcome of the
\* second
PatchTwice ==
    /\ resp.op = "none"
    /\ \E chassis_uuid \in UuidInputs, doc \in PatchDocs :
        LET r1 == patch(db, chassis_uuid, doc)
            r2 == patch(r1.db, chassis_uuid, doc)
        IN /\ r1.status = "ok"
           /\ ListsBounded(r1.db[chassis_uuid])
           /\ r2.status = "ok" => ListsBounded(r2.db[chassis_uuid])
           /\ resp' = [op |-> "patch_twice",
                       req |-> [uuid |-> chassis_uuid, patch |-> doc],
                       status |-> r2.status,
                       once |-> r1.db[chassis_uuid],
                       calls |-> r1.calls \o r2.calls]
           /\ db' = r2.db
    /\ UNCHANGED <<nextId, inflight>>

Next ==
    \/ Post(MaxCreate, PostBodies)
    \/ Delete
    \/ GetOne
    \/ GetAll(FewSortKeys, FewSortDirs)
    \/ Detail(FewSortKeys, FewSortDirs)
    \/ Patch
    \/ PatchTwice
    \/ Reply

Spec == Init /\ [][Next]_vars

NextList ==
    \/ Post(MaxListCreate, PlainBodies)
    \/ Delete
    \/ GetAll(SortKeys, SortDirs)
    \/ Detail(SortKeys, SortDirs)
    \/ Reply

SpecList == Init /\ [][NextList]_vars

(* ------------------------- concurrent updates ------------------------- *)

\* ChassisController.patch, first half, run by request p: get_by_uuid, the
\* patch and the staging.  A request that fails here is done; each of the
\* two requests is issued once.
PatchFetch(p) ==
    /\ inflight[p].pc = "idle"
    /\ \E chassis_uuid \in UuidInputs, doc \in ConcDocs :
        LET st == patch_fetch(db, chassis_uuid, doc)
        IN inflight' = [inflight EXCEPT ![p] =
               IF st.status = "ok"
               THEN [pc |-> "fetched", uuid |-> chassis_uuid, patch |-> doc,
                     st |-> st, overtaken |-> FALSE]
               ELSE [pc |-> "done", uuid |-> chassis_uuid, patch |-> doc,
                     status |-> st.status, calls |-> <<"get_by_uuid">>]]
    /\ UNCHANGED <<db, nextId, resp>>

\* ChassisController.patch, second half, run by request p: save() and the
\* response.  Another update of the same record that has fetched and not
\* yet saved is marked as overtaken.
PatchSave(p) ==
    /\ inflight[p].pc = "fetched"
    /\ LET me == inflight[p]
           sv == patch_save(db, me.st)
       IN /\ db' = sv.db
          /\ inflight' = [q \in Procs |->
                IF q = p
                THEN [pc |-> "done", uuid |-> me.uuid, patch |-> me.patch,
                      status |-> sv.status,
                      calls |-> <<"get_by_uuid", "save">>,
                      st |-> me.st, overtaken |-> me.overtaken,
                      body |-> convert_with_links(me.st.rpc_chassis, NoFields).chassis]
                ELSE IF /\ sv.status = "ok"
                        /\ inflight[q].pc = "fetched"
                        /\ inflight[q].uuid = me.uuid
                     THEN [inflight[q] EXCEPT !.overtaken = TRUE]
                     ELSE inflight[q]]
    /\ UNCHANGED <<nextId, resp>>

NextConc ==
    \/ Post(MaxConcCreate, PostBodies)
    \/ Delete
    \/ Reply
    \/ \E p \in Procs : PatchFetch(p)
    \/ \E p \in Procs : PatchSave(p)

SpecConc == Init /\ [][NextConc]_vars

(* ============================== claims ================================ *)

Errors == {"InvalidParameterValue", "ResourceNotFound", "PatchError"}
Mutations == {"create", "save", "destroy"}
Calls(r) == {r.calls[i] : i \in 1..Len(r.calls)}

\* links: exactly a self and a bookmark link to the resource (or to its
\* sub-collection sub) of the given uuid
TwoLinks(links, uuid, sub) ==
    /\ Len(links) = 2
    /\ links[1].rel = "self"
    /\ links[2].rel = "bookmark"
    /\ \A i \in 1..2 : /\ links[i].href.id = uuid
                       /\ links[i].href.sub = sub
                       /\ links[i].href.resource = "chassis"

Answered(op) == resp.op = op /\ resp.status = "ok"

Filtered == /\ Answered("get_one")
            /\ resp.req.fields.given
            /\ resp.req.fields.names # {}
            /\ "uuid" \notin resp.req.fields.names

\* C1 (as stated): under a non-empty valid filter F without "uuid" the
\* representation has uuid present, equal to the record's, and every
\* attribute not named in F absent.
C1_UuidKept ==
    Filtered =>
        /\ "uuid" \in DOMAIN resp.body
        /\ resp.body.uuid = resp.req.uuid
        /\ \A a \in ExposedFields \ (resp.req.fields.names \cup {"uuid"}) :
              a \notin DOMAIN resp.body

\* C1 (amended): under a non-empty valid filter F without "uuid" every
\* attribute not named in F is absent, uuid included; the attributes named
\* in F carry the record's values and the record's uuid lives on in the
\* links only.
C1_Projection ==
    Filtered =>
        /\ \A a \in ExposedFields \ resp.req.fields.names :
              a \notin DOMAIN resp.body
        /\ \A a \in resp.req.fields.names :
              a \in DOMAIN resp.body /\ resp.body[a] = db[resp.req.uuid][a]
        /\ TwoLinks(resp.body.links, resp.req.uuid, "")

C1_Witness ==
    /\ Filtered
    /\ resp.req.fields.names = {"description"}
    /\ resp.body.description = "a"

\* the items of a page that a successful list or list_detail returned
Listed == (resp.op = "get_all" \/ resp.op = "detail") /\ resp.status = "ok"

Paged == /\ Listed
         /\ resp.req.limit.given
         /\ resp.req.limit.n >= 1
         /\ resp.req.limit.n <= MaxLimit

Backing == Cardinality(DOMAIN db)

\* C2 (as stated): a request for the first page with limit N gets exactly
\* N items and a next link when the backing set holds at least N+1 records,
\* and N items and no next link when it holds exactly N records.
C2_NoNextAtExactlyN ==
    (Paged /\ resp.req.marker = None) =>
        LET N == resp.req.limit.n
            page == resp.body
        IN /\ Backing >= N + 1 => Len(page.chassis) = N /\ page.next.given
           /\ Backing = N => Len(page.chassis) = N /\ ~page.next.given

\* C2 (amended): a request for the first page with limit N gets exactly N
\* items and a next link when the backing set holds at least N+1 records,
\* and N items and a next link as well when it holds exactly N records; a
\* smaller backing set gives all its records and no next link.  On every
\* page the next link is there exactly when the page holds N items.
C2_NextIffFullPage ==
    Paged =>
        LET N == resp.req.limit.n
            page == resp.body
        IN /\ Len(page.chassis) <= N
           /\ page.next.given <=> Len(page.chassis) = N
           /\ page.next.given => page.next.limit = N
           /\ resp.req.marker = None =>
                /\ Backing >= N + 1 => Len(page.chassis) = N /\ page.next.given
                /\ Backing = N => Len(page.chassis) = N /\ page.next.given
                /\ Backing < N => Len(page.chassis) = Backing /\ ~page.next.given

C2_Witness ==
    /\ Paged
    /\ resp.req.marker = None
    /\ resp.req.limit.n = 2
    /\ resp.req.sort_dir = "desc"
    /\ Backing = 2
    /\ Len(resp.body.chassis) = 2
    /\ resp.body.next.given

Single == {"get_all", "detail", "get_one", "post", "patch", "delete"}

\* C3: a request of any of the six operations that ends in
\* InvalidParameterValue, ResourceNotFound or PatchError made no create,
\* save or destroy call and left the store as it was; of two updates in a
\* row of which the second fails, the second left the store as the first
\* had left it.
C3_NoWriteOnError ==
    [][(resp'.op # "none" /\ resp.op = "none" /\ resp'.status \in Errors) =>
          /\ resp'.op \in Single =>
                /\ db' = db
                /\ nextId' = nextId
                /\ Calls(resp') \cap Mutations = {}
          /\ resp'.op = "patch_twice" =>
                db'[resp'.req.uuid] = resp'.once]_vars

C3_Witness ==
    /\ resp.op = "patch"
    /\ resp.status = "PatchError"
    /\ Len(resp.req.patch) = 2
    /\ ApplyOp(db[resp.req.uuid], resp.req.patch[1]).ok
    /\ ApplyOp(db[resp.req.uuid], resp.req.patch[1]).doc # db[resp.req.uuid]

Unsortable == /\ (resp.op = "get_all" \/ resp.op = "detail")
              /\ resp.req.sort_key \in invalid_sort_key_list

\* C4 (as stated): a list or list_detail request whose sort_key is excluded
\* from sorting fails with InvalidParameterValue whatever sort_dir, marker
\* and limit are, and never issues the list query.
C4_AlwaysInvalidParameter ==
    Unsortable =>
        /\ resp.status = "InvalidParameterValue"
        /\ "list" \notin Calls(resp)

\* a request that is over with ResourceNotFound before its sort key is
\* looked at: list_detail under a wrong parent, or a marker that names no
\* record in a request whose fields, limit and sort_dir are accepted
NotFoundFirst ==
    \/ resp.op = "detail" /\ resp.req.parent # "chassis"
    \/ /\ resp.op = "get_all" => check_allow_specify_fields(resp.req.fields)
       /\ limit_valid(resp.req.limit)
       /\ sort_dir_valid(resp.req.sort_dir)
       /\ resp.req.marker # None
       /\ ~Exists(db, resp.req.marker)

\* C4 (amended): a list or list_detail request whose sort_key is excluded
\* from sorting always fails and never issues the list query; it fails with
\* InvalidParameterValue whatever sort_dir and limit are, except that it
\* fails with ResourceNotFound when list_detail has a wrong parent or when
\* the marker of an otherwise accepted request names no record.
C4_RejectedBeforeList ==
    Unsortable =>
        /\ resp.status = IF NotFoundFirst THEN "ResourceNotFound"
                         ELSE "InvalidParameterValue"
        /\ "list" \notin Calls(resp)

C4_Witness ==
    /\ Unsortable
    /\ resp.op = "get_all"
    /\ resp.req.marker # None
    /\ Exists(db, resp.req.marker)
    /\ resp.req.sort_dir = "desc"
    /\ resp.status = "InvalidParameterValue"
    /\ resp.calls = <<"get_by_uuid">>

\* C6: without a field filter the representation has a nodes attribute of
\* exactly two links, self and bookmark, to <uuid>/nodes; with a field
\* filter, the default filter of list included, nodes is absent.
C6_NodesOnlyUnfiltered ==
    /\ Answered("get_one") =>
          IF resp.req.fields.given
          THEN "nodes" \notin DOMAIN resp.body
          ELSE TwoLinks(resp.body.nodes, resp.req.uuid, "nodes")
    /\ Answered("get_all") =>
          \A i \in 1..Len(resp.body.chassis) :
              "nodes" \notin DOMAIN resp.body.chassis[i]
    /\ Answered("detail") =>
          \A i \in 1..Len(resp.body.chassis) :
              TwoLinks(resp.body.chassis[i].nodes,
                       resp.body.chassis[i].uuid, "nodes")
    /\ Answered("post") =>
          TwoLinks(resp.body.chassis.nodes, resp.body.chassis.uuid, "nodes")
    /\ Answered("patch") =>
          TwoLinks(resp.body.chassis.nodes, resp.req.uuid, "nodes")

C6_Witness ==
    /\ Answered("get_all")
    /\ ~resp.req.fields.given
    /\ Len(resp.body.chassis) = 1
    /\ DOMAIN resp.body.chassis[1] = {"uuid", "description", "links"}

\* C7: list_detail succeeds only under the parent "chassis"; under any
\* other parent it fails with ResourceNotFound whatever limit, sort_dir,
\* marker and sort_key are, without a persistence call; when it succeeds
\* every item is the full representation.
C7_DetailOnlyUnderChassis ==
    resp.op = "detail" =>
        /\ resp.status = "ok" => resp.req.parent = "chassis"
        /\ resp.req.parent # "chassis" =>
              resp.status = "ResourceNotFound" /\ resp.calls = <<>>
        /\ resp.status = "ok" =>
              \A i \in 1..Len(resp.body.chassis) :
                  /\ DOMAIN resp.body.chassis[i] =
                        ExposedFields \cup {"links", "nodes"}
                  /\ \A f \in ExposedFields :
                        resp.body.chassis[i][f] =
                           db[resp.body.chassis[i].uuid][f]

C7_Witness ==
    /\ resp.op = "detail"
    /\ resp.req.parent = "nodes"
    /\ resp.req.limit = Limit(0)
    /\ resp.req.sort_dir = "up"
    /\ resp.req.sort_key = "extra"
    /\ resp.req.marker = UuidOf(nextId)
    /\ resp.status = "ResourceNotFound"

AddReplace(doc) == \A i \in 1..Len(doc) : doc[i].op \in {"add", "replace"}
\* no operation of the document addresses a position of an array
MembersOnly(doc) == \A i \in 1..Len(doc) : Len(doc[i].path) <= 2

\* C8 (as stated): an update with a document of add and replace
\* operations with literal values, run twice in a row, leaves the record as
\* one run leaves it.
C8_TwiceIsOnce ==
    (resp.op = "patch_twice" /\ AddReplace(resp.req.patch)) =>
        /\ resp.status = "ok"
        /\ db[resp.req.uuid] = resp.once

\* C8 (amended): an update with a document of add and replace operations
\* with literal values, none of which addresses a position of an array
\* (where add inserts), run twice in a row, leaves the record as one run
\* leaves it.
C8_TwiceIsOnceOnMembers ==
    (/\ resp.op = "patch_twice"
     /\ AddReplace(resp.req.patch)
     /\ MembersOnly(resp.req.patch)) =>
        /\ resp.status = "ok"
        /\ db[resp.req.uuid] = resp.once

C8_Witness ==
    /\ resp.op = "patch_twice"
    /\ resp.req.patch = <<Op("replace", <<"description">>, "b"),
                          Op("add", <<"extra", ExtraKey>>, <<>>)>>
    /\ resp.status = "ok"
    /\ resp.once.description = "b"
    /\ resp.once.extra = {<<ExtraKey, <<>>>>}

\* the records behind the items of the page in resp, as the list query
\* returned them
ListedRecords ==
    list(db, validate_limit(resp.req.limit),
         IF resp.req.marker # None
         THEN [given |-> TRUE, rec |-> db[resp.req.marker]] ELSE NoMarker,
         resp.req.sort_key, resp.req.sort_dir)

\* C9: whatever the fields argument, the representation has links of
\* exactly two entries, self and bookmark, both built from the uuid of the
\* record, also when the projection has unset uuid.
C9_LinksFromRecordUuid ==
    /\ Answered("get_one") => TwoLinks(resp.body.links, resp.req.uuid, "")
    /\ Answered("patch") => TwoLinks(resp.body.chassis.links, resp.req.uuid, "")
    /\ Answered("post") =>
          /\ resp.body.chassis.uuid \in DOMAIN db
          /\ TwoLinks(resp.body.chassis.links, resp.body.chassis.uuid, "")
    /\ Listed =>
          /\ Len(resp.body.chassis) = Len(ListedRecords)
          /\ \A i \in 1..Len(resp.body.chassis) :
                TwoLinks(resp.body.chassis[i].links, ListedRecords[i].uuid, "")

C9_Witness ==
    /\ Answered("get_one")
    /\ resp.req.fields = Fields({})
    /\ DOMAIN resp.body = {"links"}
    /\ resp.body.links[1].href.id = resp.req.uuid

\* request p performs its save, and the save succeeds
Saves(p) ==
    /\ inflight[p].pc = "fetched"
    /\ inflight'[p].pc = "done"
    /\ inflight'[p].status = "ok"

\* C5 (as stated): after a successful update the persisted value of every
\* exposed field equals its value in the patched document, None where the
\* patched representation leaves it unset.
C5_PersistedIsPatched ==
    [][\A p \in Procs :
          Saves(p) =>
             \A f \in ExposedFields :
                 db'[inflight[p].uuid][f] = PatchVal(inflight[p].st.patched, f)]_vars

\* C5 (amended): a field is staged as changed exactly when its patched
\* value (None when the patched representation leaves it unset) differs
\* from the record's value at fetch time; the save of a successful update
\* writes the patched value of every staged field and leaves every other
\* field of the record as it is in the store, so that the persisted value
\* of every exposed field equals its patched value when no other request
\* has written the record between the fetch and the save.  A single replace
\* of /description stages description and no other field.
C5_StagedFieldsWritten ==
    [][\A p \in Procs :
          Saves(p) =>
             LET st == inflight[p].st
                 u == inflight[p].uuid
             IN /\ st.changes =
                      {f \in ExposedFields : st.before[f] # PatchVal(st.patched, f)}
                /\ \A f \in ObjFields :
                      db'[u][f] = IF f \in st.changes
                                  THEN PatchVal(st.patched, f)
                                  ELSE db[u][f]
                /\ ~inflight[p].overtaken =>
                      \A f \in ExposedFields :
                          db'[u][f] = PatchVal(st.patched, f)
                /\ (Len(inflight[p].patch) = 1
                    /\ inflight[p].patch[1].path = <<"description">>) =>
                      st.changes \subseteq {"description"}]_vars

C5_Witness ==
    \E p \in Procs :
        /\ inflight[p].pc = "done"
        /\ inflight[p].status = "ok"
        /\ inflight[p].patch = <<Op("replace", <<"description">>, "b")>>
        /\ inflight[p].st.before.description = "a"
        /\ inflight[p].st.changes = {"description"}
        /\ Exists(db, inflight[p].uuid)
        /\ db[inflight[p].uuid].description = "b"

\* C10: an update whose record was written by another update between its
\* fetch and its save is not refused: its save succeeds as long as the
\* record is persisted, and writes every field it staged, whatever the
\* other update wrote there.
C10_LostUpdateUndetected ==
    [][\A p \in Procs :
          (/\ inflight[p].pc = "fetched"
           /\ inflight'[p].pc = "done"
           /\ HasId(db, inflight[p].st.rpc_chassis.id)) =>
              /\ inflight'[p].status = "ok"
              /\ \A f \in inflight[p].st.changes :
                    db'[inflight[p].uuid][f] = inflight[p].st.rpc_chassis[f]]_vars

\* both updates fetched the same version of the record, both changed
\* description, both succeeded, and the value of the one that saved first
\* is gone
C10_Witness ==
    \E p, q \in Procs :
        /\ p # q
        /\ inflight[p].pc = "done" /\ inflight[p].status = "ok"
        /\ inflight[q].pc = "done" /\ inflight[q].status = "ok"
        /\ inflight[p].uuid = inflight[q].uuid
        /\ inflight[p].st.before = inflight[q].st.before
        /\ ~inflight[p].overtaken
        /\ inflight[q].overtaken
        /\ "description" \in inflight[p].st.changes \cap inflight[q].st.changes
        /\ inflight[p].st.rpc_chassis.description
              # inflight[q].st.rpc_chassis.description
        /\ Exists(db, inflight[q].uuid)
        /\ db[inflight[q].uuid].description
              = inflight[q].st.rpc_chassis.description

====
